---- MODULE Spec2Model ----
(***************************************************************************)
(* A model of the weather dashboard of src/script.js: the lookups started  *)
(* by searchWeather and getCurrentLocation, each suspended at its network  *)
(* calls, the two DOM regions they render into, the map view and the heat  *)
(* layer that updateMapLayers regenerates.                                 *)
(*                                                                         *)
(* Units: latitudes and longitudes are integers in 1/10000 of a degree,    *)
(* temperatures in tenths of a degree Celsius, wind bearings in hundredths *)
(* of a degree.  A value of Math.random() is k / RandRes, k in 0..RandRes-1*)
(* and an overlay intensity is kept multiplied by RandRes.                 *)
(***************************************************************************)
EXTENDS Integers, Sequences, FiniteSets, TLC

\* ------------------------------------------------------------------ bounds
MaxLookups == 2
MaxSeed == 1
RandRes == 4
MaxTurns == 2
MaxCode == 100

\* ------------------------------------------------------- program constants
DefaultLat == 515074
DefaultLon == -1278
DefaultZoom == 10
NumPoints == 50
FirstForecastDay == 1
LastForecastDay == 5
ForecastDays == 6
NumDirections == 16

LookupIds == 1..MaxLookups
Seeds == 0..MaxSeed

\* --------------------------------------------------------- JS arithmetic
\* Math.round: the nearest integer, halves towards +infinity; here of n/d, d > 0.
MathRound(n, d) == (2 * n + d) \div (2 * d)

\* The JS remainder a % b (b > 0): truncated, with the sign of the dividend.
JsRem(a, b) == IF a >= 0 THEN a % b ELSE -((-a) % b)

\* String.prototype.trim on a string given as its sequence of characters.
IsSpace(c) == c \in {" ", "\t", "\n"}

RECURSIVE TrimStart(_)
TrimStart(s) ==
    IF s # <<>> /\ IsSpace(Head(s)) THEN TrimStart(Tail(s)) ELSE s

RECURSIVE TrimEnd(_)
TrimEnd(s) ==
    IF s # <<>> /\ IsSpace(s[Len(s)]) THEN TrimEnd(SubSeq(s, 1, Len(s) - 1)) ELSE s

\* Faulty variant of Trim: the .trim() is forgotten.
TrimForgotten(s) == s

Trim(s) == TrimEnd(TrimStart(s))

\* ------------------------------------------------------ the environment
\* What the city input can hold when searchWeather reads it.
Paris == <<"P", "a", "r", "i", "s">>
Queries ==
    { <<>>, <<" ", " ">>, <<" ">> \o Paris \o <<" ">>, <<"Q", "q">> }

\* The geocoding provider's answer to ?name=<name>&count=1.
GeoSearch(name) ==
    IF name = Paris
    THEN [results |-> << [latitude |-> 488534, longitude |-> 23488,
                          name |-> "Paris", country |-> "France"] >>]
    ELSE [generationtime_ms |-> 1]

\* The positions the device can report to getCurrentPosition.
DevicePositions == { [latitude |-> 407128, longitude |-> -740060] }

\* The geocoding provider's answers to ?latitude=..&longitude=..&count=1:
\* a named result, a result without a name, or no results at all.
GeoReverse(lat, lon) ==
    { [results |-> << [latitude |-> lat, longitude |-> lon,
                       name |-> "New York", country |-> "United States"] >>],
      [results |-> << [latitude |-> lat, longitude |-> lon] >>],
      [generationtime_ms |-> 1] }

\* The weather provider's full answer for a coordinate: one fixed forecast per
\* coordinate, the values derived from the latitude.
WeatherCodes == <<0, 2, 61, 95, 7, 45>>

DayCode(lat, i) == WeatherCodes[((lat \div 10000 + i) % Len(WeatherCodes)) + 1]

FullWeather(lat, lon) ==
    LET base == (lat \div 10000) % 30 IN
    [ latitude |-> lat, longitude |-> lon,
      current |-> [ temperature_2m |-> base * 10 + 5,
                    apparent_temperature |-> base * 10 - 16,
                    relative_humidity_2m |-> 40 + base,
                    wind_speed_10m |-> 72 + base,
                    wind_direction_10m |-> 1000 * base + 875,
                    weather_code |-> DayCode(lat, 0) ],
      daily |-> [ time |-> [i \in 1..ForecastDays |-> i - 1],
                  temperature_2m_max |-> [i \in 1..ForecastDays |-> base * 10 + 10 * i + 5],
                  temperature_2m_min |-> [i \in 1..ForecastDays |-> base * 10 - 10 * i - 5],
                  weather_code |-> [i \in 1..ForecastDays |-> DayCode(lat, i - 1)],
                  wind_speed_10m_max |-> [i \in 1..ForecastDays |-> 100 + i],
                  precipitation_sum |-> [i \in 1..ForecastDays |-> i - 1] ] ]

\* The bodies the weather call can deliver: the full one, one without the
\* current block, one without the daily block.
WeatherBodies(lat, lon) ==
    LET full == FullWeather(lat, lon) IN
    { full,
      [latitude |-> lat, longitude |-> lon, daily |-> full.daily],
      [latitude |-> lat, longitude |-> lon, current |-> full.current] }

\* JS array indexing (from 0) of a sequence.
At(arr, i) == arr[i + 1]

\* ------------------------------------------------------- pure functions
directions ==
    <<"N", "NNE", "NE", "ENE", "E", "ESE", "SE", "SSE",
      "S", "SSW", "SW", "WSW", "W", "WNW", "NW", "NNW">>

\* Faulty variant of getWindDirection: Math.floor in the place of Math.round.
getWindDirectionFloored(degrees) ==
    LET index == JsRem(degrees \div 2250, NumDirections) IN
    IF index \in 0..(NumDirections - 1) THEN At(directions, index) ELSE "undefined"

\* getWindDirection, of a bearing in hundredths of a degree.
getWindDirection(degrees) ==
    LET index == JsRem(MathRound(degrees, 2250), NumDirections) IN
    IF index \in 0..(NumDirections - 1) THEN At(directions, index) ELSE "undefined"

weatherMap ==
    [ code \in {0, 1, 2, 3, 45, 48, 51, 53, 55, 61, 63, 65, 80, 81, 82, 95, 96} |->
        CASE code = 0 -> [description |-> "Clear sky", icon |-> "sun"]
          [] code = 1 -> [description |-> "Mainly clear", icon |-> "sun-small-cloud"]
          [] code = 2 -> [description |-> "Partly cloudy", icon |-> "sun-cloud"]
          [] code = 3 -> [description |-> "Overcast", icon |-> "cloud"]
          [] code = 45 -> [description |-> "Fog", icon |-> "fog"]
          [] code = 48 -> [description |-> "Depositing rime fog", icon |-> "fog"]
          [] code = 51 -> [description |-> "Light drizzle", icon |-> "sun-rain"]
          [] code = 53 -> [description |-> "Moderate drizzle", icon |-> "sun-rain"]
          [] code = 55 -> [description |-> "Dense drizzle", icon |-> "sun-rain"]
          [] code = 61 -> [description |-> "Slight rain", icon |-> "rain"]
          [] code = 63 -> [description |-> "Moderate rain", icon |-> "rain"]
          [] code = 65 -> [description |-> "Heavy rain", icon |-> "storm"]
          [] code = 80 -> [description |-> "Slight rain showers", icon |-> "sun-rain"]
          [] code = 81 -> [description |-> "Moderate rain showers", icon |-> "rain"]
          [] code = 82 -> [description |-> "Violent rain showers", icon |-> "storm"]
          [] code = 95 -> [description |-> "Thunderstorm", icon |-> "storm"]
          [] code = 96 -> [description |-> "Thunderstorm with hail", icon |-> "storm"] ]

\* Faulty variant of getWeatherInfo: the code itself is tested for truthiness,
\* so code 0 falls to the sentinel.
getWeatherInfoFalsyZero(code) ==
    IF code # 0 /\ code \in DOMAIN weatherMap
    THEN weatherMap[code]
    ELSE [description |-> "Unknown", icon |-> "question"]

\* getWeatherInfo: weatherMap[code] || the sentinel (every entry is an object,
\* so truthy).
getWeatherInfo(code) ==
    IF code \in DOMAIN weatherMap
    THEN weatherMap[code]
    ELSE [description |-> "Unknown", icon |-> "question"]

\* ------------------------------------------------------------ the page
\* The texts of the three buttons of .map-controls, and String.includes on them.
TemperatureButton == "Temperature"
WindButton == "Wind Flow"
PrecipitationButton == "Precipitation"
ButtonTexts == {TemperatureButton, WindButton, PrecipitationButton}

Includes(text, word) ==
    \/ text = TemperatureButton /\ word = "Temperature"
    \/ text = WindButton /\ word = "Wind"
    \/ text = PrecipitationButton /\ word = "Precipitation"

\* setActiveButton: the one button carrying the class "active" afterwards.
setActiveButton(buttonText) ==
    IF buttonText \in ButtonTexts THEN buttonText ELSE ""

EmptyRegion == [kind |-> "empty"]

\* showLoading: the placeholders written to #currentWeather and #forecast.
showLoading ==
    [ currentWeather |-> [kind |-> "loading", text |-> "Loading weather data..."],
      forecast |-> [kind |-> "loading", text |-> "Loading forecast..."] ]

\* Faulty variant of showError: the failure is only logged, the summary keeps the
\* loading placeholder.
showErrorOnlyLogged(message) == [kind |-> "loading", text |-> "Loading weather data..."]

\* showError: what is written to #currentWeather (and to nothing else).
showError(message) == [kind |-> "error", message |-> message]

\* The messages, each as the sequence of the parts it is concatenated from.
MsgEmptyQuery == <<"Please enter a city name">>
MsgNotFound == <<"City not found. Please try another city.">>
MsgFetch == <<"Error fetching weather data. Please try again.">>
MsgNoGeolocation == <<"Geolocation is not supported by this browser.">>
MsgPosition(message) == <<"Error getting location: ", message>>
PositionErrors == {"User denied Geolocation"}

\* displayCurrentWeather: the summary written to #currentWeather.
displayCurrentWeather(data, cityName, country) ==
    LET current == data.current
        weatherInfo == getWeatherInfo(current.weather_code) IN
    [ kind |-> "weather",
      cityName |-> cityName,
      country |-> country,
      temp |-> MathRound(current.temperature_2m, 10),
      description |-> weatherInfo.description,
      icon |-> weatherInfo.icon,
      feelsLike |-> MathRound(current.apparent_temperature, 10),
      humidity |-> current.relative_humidity_2m,
      windSpeed |-> current.wind_speed_10m,
      windDeg |-> current.wind_direction_10m,
      windDirection |-> getWindDirection(current.wind_direction_10m) ]

\* The card displayForecast builds from daily index i.
forecastCard(daily, i) ==
    LET weatherInfo == getWeatherInfo(At(daily.weather_code, i)) IN
    [ date |-> At(daily.time, i),
      icon |-> weatherInfo.icon,
      description |-> weatherInfo.description,
      maxTemp |-> MathRound(At(daily.temperature_2m_max, i), 10),
      minTemp |-> MathRound(At(daily.temperature_2m_min, i), 10),
      windSpeed |-> At(daily.wind_speed_10m_max, i),
      precipitation |-> At(daily.precipitation_sum, i) ]

\* Faulty variant of displayForecast: the loop starts at today, index 0.
displayForecastFromToday(data) ==
    IF "daily" \in DOMAIN data
    THEN [ kind |-> "cards",
           cards |-> [ n \in 1..(LastForecastDay - FirstForecastDay + 1) |->
                         forecastCard(data.daily, n - 1) ] ]
    ELSE [kind |-> "cards", cards |-> <<>>]

\* displayForecast: #forecast is emptied, then one card per day is appended.
\* Without a daily block the first daily.time[i] throws, after the emptying.
displayForecast(data) ==
    IF "daily" \in DOMAIN data
    THEN [ kind |-> "cards",
           cards |-> [ n \in 1..(LastForecastDay - FirstForecastDay + 1) |->
                         forecastCard(data.daily, FirstForecastDay + n - 1) ] ]
    ELSE [kind |-> "cards", cards |-> <<>>]

\* A response of fetch + json(): a transport or parse failure, or a body.
NetworkFailure == [ok |-> FALSE]
Delivered(body) == [ok |-> TRUE, body |-> body]

\* Faulty variant of getWeatherData: the catch block also empties #forecast.
getWeatherDataClearing(response, cityName, country, cw, fc) ==
    IF ~response.ok
    THEN [currentWeather |-> showError(MsgFetch), forecast |-> EmptyRegion]
    ELSE IF "current" \notin DOMAIN response.body
    THEN [currentWeather |-> showError(MsgFetch), forecast |-> EmptyRegion]
    ELSE IF "daily" \notin DOMAIN response.body
    THEN [ currentWeather |-> showError(MsgFetch),
           forecast |-> displayForecast(response.body) ]
    ELSE [ currentWeather |-> displayCurrentWeather(response.body, cityName, country),
           forecast |-> displayForecast(response.body) ]

\* Faulty variant of getWeatherData: the catch block only logs.
getWeatherDataSilent(response, cityName, country, cw, fc) ==
    IF ~response.ok
    THEN [currentWeather |-> cw, forecast |-> fc]
    ELSE IF "current" \notin DOMAIN response.body
    THEN [currentWeather |-> cw, forecast |-> fc]
    ELSE IF "daily" \notin DOMAIN response.body
    THEN [currentWeather |-> cw, forecast |-> displayForecast(response.body)]
    ELSE [ currentWeather |-> displayCurrentWeather(response.body, cityName, country),
           forecast |-> displayForecast(response.body) ]

\* Faulty variant of getWeatherData: the forecast is rendered before the
\* current block is looked at.
getWeatherDataForecastFirst(response, cityName, country, cw, fc) ==
    IF ~response.ok
    THEN [currentWeather |-> showError(MsgFetch), forecast |-> fc]
    ELSE IF "current" \notin DOMAIN response.body
    THEN [ currentWeather |-> showError(MsgFetch),
           forecast |-> displayForecast(response.body) ]
    ELSE IF "daily" \notin DOMAIN response.body
    THEN [ currentWeather |-> showError(MsgFetch),
           forecast |-> displayForecast(response.body) ]
    ELSE [ currentWeather |-> displayCurrentWeather(response.body, cityName, country),
           forecast |-> displayForecast(response.body) ]

\* getWeatherData once its response is in: the two regions afterwards. Every
\* failure inside is caught inside, so the caller always continues.
getWeatherData(response, cityName, country, cw, fc) ==
    IF ~response.ok
    THEN [currentWeather |-> showError(MsgFetch), forecast |-> fc]
    ELSE IF "current" \notin DOMAIN response.body
    THEN [currentWeather |-> showError(MsgFetch), forecast |-> fc]
    ELSE IF "daily" \notin DOMAIN response.body
    THEN [ currentWeather |-> showError(MsgFetch),
           forecast |-> displayForecast(response.body) ]
    ELSE [ currentWeather |-> displayCurrentWeather(response.body, cityName, country),
           forecast |-> displayForecast(response.body) ]

\* How a weather response ends the lookup (bookkeeping of the path taken).
WeatherOutcome(response) ==
    IF ~response.ok THEN "ForecastFailure"
    ELSE IF "current" \notin DOMAIN response.body THEN "NoCurrentData"
    ELSE IF "daily" \notin DOMAIN response.body THEN "NoDailyData"
    ELSE "Displayed"

\* ------------------------------------------------------------- the map
TileLayer == [tiles |-> "openstreetmap"]

\* map.setView
setView(m, lat, lon, zoom) == [m EXCEPT !.view = <<lat, lon, zoom>>]

\* map.removeLayer: the layer is taken off the map, if it is on it.
RECURSIVE removeLayer(_, _)
removeLayer(layers, layer) ==
    IF layers = <<>> THEN <<>>
    ELSE IF Head(layers) = layer THEN Tail(layers)
    ELSE <<Head(layers)>> \o removeLayer(Tail(layers), layer)

\* Math.random() is a generator with a hidden state: one regeneration makes
\* 3 * NumPoints draws from the state `seed` and leaves the state nextSeed.
nextSeed(seed) == (seed + 1) % (MaxSeed + 1)

\* The n-th value Math.random() returns in a regeneration started in state
\* `seed`, as its numerator over RandRes.
Random(seed, n) == (seed * (n + 1) + n + (n \div 3) + (n \div 7)) % RandRes

\* (Math.random() - 0.5) * 0.2 degrees, in 1/10000 degree.
Jitter(k) == (2000 * k) \div RandRes - 1000

\* The three values iteration i of updateMapLayers draws, for every seed:
\* the two jitters and the numerator of the intensity's draw.
Draws ==
    [ seed \in Seeds |->
        [ i \in 0..(NumPoints - 1) |->
            << Jitter(Random(seed, 3 * i)),
               Jitter(Random(seed, 3 * i + 1)),
               Random(seed, 3 * i + 2) >> ] ]

\* The [lat, lon, intensity] pushed by iteration i of updateMapLayers.
samplePoint(activeButton, lat, lon, seed, i) ==
    LET d == Draws[seed][i] IN
    << lat + d[1],
       lon + d[2],
       IF Includes(activeButton, "Temperature") THEN d[3] * 15 + 15 * RandRes
       ELSE IF Includes(activeButton, "Wind") THEN d[3] * 10
       ELSE d[3] * 5 >>

\* The points array built by the loop of updateMapLayers.  A layer keeps what
\* its points were drawn from (the active button's text, currentLat,
\* currentLon and the seed); pointsOf gives the NumPoints points themselves.
drawPoints(activeButton, lat, lon, seed) ==
    [activeButton |-> activeButton, lat |-> lat, lon |-> lon, seed |-> seed]

pointsOf(drawn) ==
    [ n \in 1..NumPoints |->
        samplePoint(drawn.activeButton, drawn.lat, drawn.lon, drawn.seed, n - 1) ]

\* L.heatLayer(points, options)
heatLayerOf(activeButton, points) ==
    IF Includes(activeButton, "Temperature")
    THEN [points |-> points, radius |-> 25, blur |-> 15, gradient |-> "temperature"]
    ELSE [ points |-> points, radius |-> 20, blur |-> 10,
           gradient |-> IF Includes(activeButton, "Wind") THEN "wind" ELSE "precipitation" ]

\* Faulty variant of updateMapLayers: the old heat layer is left on the map.
updateMapLayersKeepingOld(m, hl, activeButton, lat, lon, seed) ==
    LET points == drawPoints(activeButton, lat, lon, seed)
        layer == heatLayerOf(activeButton, points) IN
    [ map |-> [m EXCEPT !.layers = Append(m.layers, layer)],
      heatLayer |-> <<layer>> ]

\* updateMapLayers: the old heat layer leaves the map, NumPoints samples are
\* drawn around (lat, lon) = (currentLat, currentLon), the new layer is added.
\* heatLayer is <<>> while undefined and <<layer>> afterwards; windLayer is
\* never assigned, so its removal never happens.
updateMapLayers(m, hl, activeButton, lat, lon, seed) ==
    LET cleared == IF hl # <<>> THEN removeLayer(m.layers, hl[1]) ELSE m.layers
        points == drawPoints(activeButton, lat, lon, seed)
        layer == heatLayerOf(activeButton, points) IN
    [ map |-> [m EXCEPT !.layers = Append(cleared, layer)],
      heatLayer |-> <<layer>> ]

\* ------------------------------------------------------------ the state
VARIABLES
    started,        \* whether the DOMContentLoaded listener has run initApp
    geolocation,    \* whether navigator.geolocation exists in this browser
    rng,            \* the state of the generator behind Math.random()
    currentLat,     \* the globals of lines 7 and 8
    currentLon,
    map,            \* the Leaflet map: its view (<<>> until created) and its layers
    heatLayer,      \* <<>> while undefined, <<layer>> afterwards
    activeButton,   \* the text of the .map-controls button carrying "active"
    currentWeather, \* the content of #currentWeather (the summary region)
    forecast,       \* the content of #forecast (the forecast region)
    lookups,        \* the calls of searchWeather / getCurrentLocation, by issue order
    ended,          \* history: the lookup that ended last, if none was issued since
    call            \* a call of getWindDirection or getWeatherInfo made on its own

vars ==
    << started, geolocation, rng, currentLat, currentLon, map, heatLayer, activeButton,
       currentWeather, forecast, lookups, ended, call >>

\* A lookup's locals.  pc: "unused" (not called yet), "position"
\* (getCurrentPosition pending), "geocoding" (the geocoding fetch pending),
\* "weather" (the fetch of getWeatherData pending), "done" (returned: its
\* locals are gone, `ended` keeps those of the last one).  lat, lon: the coordinate
\* passed to getWeatherData (for a search also the destructured latitude,
\* longitude).  History: fromLat, fromLon, the globals when a name search
\* showed the placeholders; hadCards, whether #forecast held cards then; overtaken, whether a lookup issued after this one
\* has ended already; outcome, how the lookup ended.
NoLookup ==
    [ kind |-> "none", pc |-> "unused", query |-> <<>>, lat |-> 0, lon |-> 0,
      cityName |-> "", country |-> "", viaCatch |-> FALSE,
      fromLat |-> 0, fromLon |-> 0, hadCards |-> FALSE, overtaken |-> FALSE, outcome |-> "" ]

\* The samples of the overlay now on the map (none before initMap).
OverlaySamples == IF heatLayer = <<>> THEN <<>> ELSE pointsOf(heatLayer[1].points)

InFlight == { l \in LookupIds : lookups[l].pc \in {"position", "geocoding", "weather"} }

\* The number of lookups that showed the placeholders, and the next one's place.
Issued == Cardinality({ l \in LookupIds : lookups[l].pc # "unused" })
NextLookup == Issued + 1

\* The requests that are out: one per lookup waiting for a fetch.
GeocodingRequests == { l \in LookupIds : lookups[l].pc = "geocoding" }
ForecastRequests == { l \in LookupIds : lookups[l].pc = "weather" }

HasCards(region) == region.kind = "cards" /\ region.cards # <<>>

\* No call of a pure function on its own: the page only calls them while rendering.
NoCall == [fn |-> "none", pc |-> "none"]

\* The page when the script has been loaded and DOMContentLoaded has not fired.
PageLoaded ==
    /\ started = FALSE
    /\ geolocation \in BOOLEAN
    /\ rng \in Seeds
    /\ currentLat = DefaultLat
    /\ currentLon = DefaultLon
    /\ map = [view |-> <<>>, layers |-> <<>>]
    /\ heatLayer = <<>>
    /\ activeButton = ""
    /\ currentWeather = EmptyRegion
    /\ forecast = EmptyRegion
    /\ lookups = [l \in LookupIds |-> NoLookup]
    /\ ended = NoLookup

Init ==
    /\ PageLoaded
    /\ call = NoCall

\* A lookup ends: the lookups issued before it that are still suspended have
\* been overtaken.  `ended` keeps its kind, its cityName, the path it took and
\* its history until the next lookup is issued.
Ended(l, outcome) ==
    /\ lookups' = [ k \in LookupIds |->
                      IF k = l THEN [NoLookup EXCEPT !.pc = "done"]
                      ELSE IF k < l /\ k \in InFlight
                      THEN [lookups[k] EXCEPT !.overtaken = TRUE]
                      ELSE lookups[k] ]
    /\ ended' = [NoLookup EXCEPT !.pc = "done", !.outcome = outcome,
                                 !.kind = lookups[l].kind,
                                 !.cityName = lookups[l].cityName,
                                 !.viaCatch = lookups[l].viaCatch,
                                 !.hadCards = lookups[l].hadCards,
                                 !.overtaken = lookups[l].overtaken]

\* -------------------------------------------------------------- searchWeather
\* Lines 32-42 of searchWeather with the input holding q: a blank query ends
\* at showError; any other shows the placeholders and sends the geocoding
\* request.  Only the variables searchWeather touches are constrained.
searchWeatherBegin(q) ==
    LET cityInput == Trim(q) IN
    IF cityInput = <<>>
    THEN /\ currentWeather' = showError(MsgEmptyQuery)
         /\ UNCHANGED <<forecast, lookups, ended>>
    ELSE /\ Issued < MaxLookups
         /\ ended' = NoLookup
         /\ currentWeather' = showLoading.currentWeather
         /\ forecast' = showLoading.forecast
         /\ lookups' = [lookups EXCEPT ![NextLookup] =
                          [NoLookup EXCEPT !.kind = "search", !.pc = "geocoding",
                                           !.query = cityInput,
                                           !.fromLat = currentLat,
                                           !.fromLon = currentLon,
                                           !.hadCards = HasCards(forecast)]]

\* initApp (run by the DOMContentLoaded listener): initMap, that is the map
\* view, the tile layer and showTemperatureMap, then searchWeather on whatever
\* the input holds.  Nothing else can run in between.
InitApp(q) ==
    /\ ~started
    /\ started' = TRUE
    /\ LET created == [view |-> <<currentLat, currentLon, DefaultZoom>>,
                       layers |-> <<TileLayer>>]
           button == setActiveButton(TemperatureButton)
           u == updateMapLayers(created, heatLayer, button, currentLat, currentLon, rng) IN
       /\ activeButton' = button
       /\ map' = u.map
       /\ heatLayer' = u.heatLayer
    /\ rng' = nextSeed(rng)
    /\ searchWeatherBegin(q)
    /\ UNCHANGED <<call, geolocation, currentLat, currentLon>>

\* The search button or the Enter key.
SearchWeather(q) ==
    /\ started
    /\ searchWeatherBegin(q)
    /\ UNCHANGED <<call, started, geolocation, rng, currentLat, currentLon, map, heatLayer,
                   activeButton>>

\* The geocoding responses a name search can receive.
SearchResponses(l) == {NetworkFailure, Delivered(GeoSearch(lookups[l].query))}

\* Faulty variant of SearchGeocodingReturns: an empty result set does not end
\* the lookup, the forecast is fetched for the globals as they are.
SearchGeocodingReturnsFetchingAnyway(l, response) ==
    /\ lookups[l].kind = "search"
    /\ lookups[l].pc = "geocoding"
    /\ IF ~response.ok
       THEN /\ currentWeather' = showError(MsgFetch)
            /\ Ended(l, "GeocodingFailure")
            /\ UNCHANGED <<currentLat, currentLon>>
       ELSE IF \/ "results" \notin DOMAIN response.body
               \/ Len(response.body.results) = 0
       THEN /\ lookups' = [lookups EXCEPT ![l].pc = "weather",
                                          ![l].lat = currentLat,
                                          ![l].lon = currentLon]
            /\ UNCHANGED <<currentLat, currentLon, currentWeather, ended>>
       ELSE LET first == At(response.body.results, 0) IN
            /\ currentLat' = first.latitude
            /\ currentLon' = first.longitude
            /\ lookups' = [lookups EXCEPT ![l].pc = "weather",
                                          ![l].lat = first.latitude,
                                          ![l].lon = first.longitude,
                                          ![l].cityName = first.name,
                                          ![l].country = first.country]
            /\ UNCHANGED <<currentWeather, ended>>
    /\ UNCHANGED <<call, started, geolocation, rng, map, heatLayer, activeButton, forecast>>

\* Lines 42-55 of searchWeather, resumed by the geocoding response: a failed
\* fetch or json() goes to the catch block, an empty result set to "City not
\* found"; otherwise the globals are assigned and getWeatherData is called.
SearchGeocodingReturns(l, response) ==
    /\ lookups[l].kind = "search"
    /\ lookups[l].pc = "geocoding"
    /\ IF ~response.ok
       THEN /\ currentWeather' = showError(MsgFetch)
            /\ Ended(l, "GeocodingFailure")
            /\ UNCHANGED <<currentLat, currentLon>>
       ELSE IF \/ "results" \notin DOMAIN response.body
               \/ Len(response.body.results) = 0
       THEN /\ currentWeather' = showError(MsgNotFound)
            /\ Ended(l, "NotFound")
            /\ UNCHANGED <<currentLat, currentLon>>
       ELSE LET first == At(response.body.results, 0) IN
            /\ currentLat' = first.latitude
            /\ currentLon' = first.longitude
            /\ lookups' = [lookups EXCEPT ![l].pc = "weather",
                                          ![l].lat = first.latitude,
                                          ![l].lon = first.longitude,
                                          ![l].cityName = first.name,
                                          ![l].country = first.country]
            /\ UNCHANGED <<currentWeather, ended>>
    /\ UNCHANGED <<call, started, geolocation, rng, map, heatLayer, activeButton, forecast>>

\* ---------------------------------------------------------- getCurrentLocation
\* Lines 68-71 and 98-100: without navigator.geolocation an error is shown;
\* with it the placeholders are shown and the position is asked for.
GetCurrentLocation ==
    /\ started
    /\ IF ~geolocation
       THEN /\ currentWeather' = showError(MsgNoGeolocation)
            /\ UNCHANGED <<forecast, lookups, ended>>
       ELSE /\ Issued < MaxLookups
            /\ ended' = NoLookup
            /\ currentWeather' = showLoading.currentWeather
            /\ forecast' = showLoading.forecast
            /\ lookups' = [lookups EXCEPT ![NextLookup] =
                             [NoLookup EXCEPT !.kind = "geolocation", !.pc = "position",
                                              !.hadCards = HasCards(forecast)]]
    /\ UNCHANGED <<call, started, geolocation, rng, currentLat, currentLon, map, heatLayer,
                   activeButton>>

\* Lines 72-80: the success callback assigns the globals and sends the
\* reverse-geocoding request for them.
PositionSuccess(l, position) ==
    /\ lookups[l].kind = "geolocation"
    /\ lookups[l].pc = "position"
    /\ currentLat' = position.latitude
    /\ currentLon' = position.longitude
    /\ lookups' = [lookups EXCEPT ![l].pc = "geocoding",
                                  ![l].lat = position.latitude,
                                  ![l].lon = position.longitude]
    /\ UNCHANGED <<call, started, geolocation, rng, map, heatLayer, activeButton, currentWeather,
                   forecast, ended>>

\* Lines 94-96: the error callback.
PositionError(l, message) ==
    /\ lookups[l].kind = "geolocation"
    /\ lookups[l].pc = "position"
    /\ currentWeather' = showError(MsgPosition(message))
    /\ Ended(l, "GeolocationUnavailable")
    /\ UNCHANGED <<call, started, geolocation, rng, currentLat, currentLon, map, heatLayer,
                   activeButton, forecast>>

\* Faulty variant of firstField: the || fallback is forgotten.
firstFieldNoFallback(data, field, fallback) ==
    IF /\ "results" \in DOMAIN data
       /\ Len(data.results) > 0
       /\ field \in DOMAIN At(data.results, 0)
    THEN At(data.results, 0)[field]
    ELSE ""

\* data.results?.[0]?.name || 'Your Location' and data.results?.[0]?.country || ''
firstField(data, field, fallback) ==
    IF /\ "results" \in DOMAIN data
       /\ Len(data.results) > 0
       /\ field \in DOMAIN At(data.results, 0)
       /\ At(data.results, 0)[field] # ""
    THEN At(data.results, 0)[field]
    ELSE fallback

\* The reverse-geocoding responses for the coordinate the lookup asked about.
ReverseResponses(l) ==
    {NetworkFailure} \cup { Delivered(b) : b \in GeoReverse(lookups[l].lat, lookups[l].lon) }

\* Lines 81-85 and 89-91, resumed by the reverse-geocoding response: in the
\* try block and in the catch block alike getWeatherData is called with the
\* globals as they are now.
ReverseGeocodingReturns(l, response) ==
    /\ lookups[l].kind = "geolocation"
    /\ lookups[l].pc = "geocoding"
    /\ lookups' = [lookups EXCEPT
         ![l].pc = "weather",
         ![l].lat = currentLat,
         ![l].lon = currentLon,
         ![l].cityName = IF response.ok
                         THEN firstField(response.body, "name", "Your Location")
                         ELSE "Your Location",
         ![l].country = IF response.ok
                        THEN firstField(response.body, "country", "")
                        ELSE "",
         ![l].viaCatch = ~response.ok]
    /\ UNCHANGED <<call, started, geolocation, rng, currentLat, currentLon, map, heatLayer,
                   activeButton, currentWeather, forecast, ended>>

\* ----------------------------------------------------------------- getWeatherData
\* The forecast responses for the coordinate passed to getWeatherData.
WeatherResponses(l) ==
    {NetworkFailure} \cup { Delivered(b) : b \in WeatherBodies(lookups[l].lat, lookups[l].lon) }

\* Whether the caller of getWeatherData goes on to map.setView and
\* updateMapLayers: lines 58-59 and 86-87 do, the catch block of line 91 does not.
updatesMap(lookup) == ~lookup.viaCatch

\* The coordinate the caller passes to map.setView: the destructured
\* latitude, longitude in searchWeather, the globals in getCurrentLocation.
viewTarget(lookup, lat, lon) ==
    IF lookup.kind = "search" THEN <<lookup.lat, lookup.lon>> ELSE <<lat, lon>>

\* Faulty variant of WeatherReturns: a generation token makes an overtaken lookup drop
\* its response.
WeatherReturnsUnlessOvertaken(l, response) ==
    /\ lookups[l].pc = "weather"
    /\ LET r == IF lookups[l].overtaken
                THEN [currentWeather |-> currentWeather, forecast |-> forecast]
                ELSE getWeatherData(response, lookups[l].cityName, lookups[l].country,
                                    currentWeather, forecast) IN
       /\ currentWeather' = r.currentWeather
       /\ forecast' = r.forecast
    /\ IF updatesMap(lookups[l]) /\ ~lookups[l].overtaken
       THEN LET target == viewTarget(lookups[l], currentLat, currentLon)
                u == updateMapLayers(setView(map, target[1], target[2], DefaultZoom),
                                     heatLayer, activeButton, currentLat, currentLon, rng) IN
            /\ map' = u.map
            /\ heatLayer' = u.heatLayer
            /\ rng' = nextSeed(rng)
       ELSE UNCHANGED <<map, heatLayer, rng>>
    /\ Ended(l, WeatherOutcome(response))
    /\ UNCHANGED <<call, started, geolocation, currentLat, currentLon, activeButton>>

\* Lines 111-123, resumed by the forecast response, then the rest of the
\* caller, which runs in the same turn of the event loop.
WeatherReturns(l, response) ==
    /\ lookups[l].pc = "weather"
    /\ LET r == getWeatherData(response, lookups[l].cityName, lookups[l].country,
                               currentWeather, forecast) IN
       /\ currentWeather' = r.currentWeather
       /\ forecast' = r.forecast
    /\ IF updatesMap(lookups[l])
       THEN LET target == viewTarget(lookups[l], currentLat, currentLon)
                u == updateMapLayers(setView(map, target[1], target[2], DefaultZoom),
                                     heatLayer, activeButton, currentLat, currentLon, rng) IN
            /\ map' = u.map
            /\ heatLayer' = u.heatLayer
            /\ rng' = nextSeed(rng)
       ELSE UNCHANGED <<map, heatLayer, rng>>
    /\ Ended(l, WeatherOutcome(response))
    /\ UNCHANGED <<call, started, geolocation, currentLat, currentLon, activeButton>>

\* --------------------------------------------------------------- overlay modes
\* Faulty variant of showMap: the button handler also shows the loading placeholders.
showMapReloading(buttonText) ==
    /\ started
    /\ LET button == setActiveButton(buttonText)
           u == updateMapLayers(map, heatLayer, button, currentLat, currentLon, rng) IN
       /\ activeButton' = button
       /\ map' = u.map
       /\ heatLayer' = u.heatLayer
    /\ rng' = nextSeed(rng)
    /\ currentWeather' = showLoading.currentWeather
    /\ forecast' = showLoading.forecast
    /\ UNCHANGED <<call, started, geolocation, currentLat, currentLon, lookups, ended>>

\* showTemperatureMap, showWindMap, showPrecipitationMap: setActiveButton,
\* then updateMapLayers.
showMap(buttonText) ==
    /\ started
    /\ LET button == setActiveButton(buttonText)
           u == updateMapLayers(map, heatLayer, button, currentLat, currentLon, rng) IN
       /\ activeButton' = button
       /\ map' = u.map
       /\ heatLayer' = u.heatLayer
    /\ rng' = nextSeed(rng)
    /\ UNCHANGED <<call, started, geolocation, currentLat, currentLon, currentWeather,
                   forecast, lookups, ended>>

showTemperatureMap == showMap(TemperatureButton)
showWindMap == showMap(WindButton)
showPrecipitationMap == showMap(PrecipitationButton)

\* ------------------------------------------------------------ specification
Next ==
    \/ \E q \in Queries : InitApp(q)
    \/ \E q \in Queries : SearchWeather(q)
    \/ \E l \in LookupIds : \E response \in SearchResponses(l) :
           SearchGeocodingReturns(l, response)
    \/ GetCurrentLocation
    \/ \E l \in LookupIds, position \in DevicePositions : PositionSuccess(l, position)
    \/ \E l \in LookupIds, message \in PositionErrors : PositionError(l, message)
    \/ \E l \in LookupIds : \E response \in ReverseResponses(l) :
           ReverseGeocodingReturns(l, response)
    \/ \E l \in LookupIds : \E response \in WeatherResponses(l) :
           WeatherReturns(l, response)
    \/ showTemperatureMap
    \/ showWindMap
    \/ showPrecipitationMap

Spec == Init /\ [][Next]_vars

\* Every outstanding call of a lookup eventually returns.
Returns(l) ==
    \/ \E response \in SearchResponses(l) : SearchGeocodingReturns(l, response)
    \/ \E position \in DevicePositions : PositionSuccess(l, position)
    \/ \E message \in PositionErrors : PositionError(l, message)
    \/ \E response \in ReverseResponses(l) : ReverseGeocodingReturns(l, response)
    \/ \E response \in WeatherResponses(l) : WeatherReturns(l, response)

FairSpec == Spec /\ \A l \in LookupIds : WF_vars(Returns(l))

\* ------------------------------------------- the pure functions on their own
\* The arguments getWindDirection and getWeatherInfo are called with: every
\* quarter of a degree of one turn, shifted by whole turns; every code up to
\* MaxCode, of either sign.
Bearings == { 25 * j : j \in 0..1439 }
Turns == (-MaxTurns)..MaxTurns
Codes == (-MaxCode)..MaxCode

WindCalls ==
    { [fn |-> "getWindDirection", pc |-> "called", degrees |-> d, turns |-> k] :
        d \in Bearings, k \in Turns }
CodeCalls == { [fn |-> "getWeatherInfo", pc |-> "called", code |-> c] : c \in Codes }

page ==
    << started, geolocation, rng, currentLat, currentLon, map, heatLayer, activeButton,
       currentWeather, forecast, lookups, ended >>

FunctionInit ==
    /\ PageLoaded
    /\ call \in WindCalls \cup CodeCalls

\* getWindDirection returns, for the bearing and for the bearing shifted by
\* call.turns whole turns.
GetWindDirection ==
    /\ call.fn = "getWindDirection"
    /\ call.pc = "called"
    /\ call' = [ fn |-> call.fn, pc |-> "returned",
                 degrees |-> call.degrees, turns |-> call.turns,
                 label |-> getWindDirection(call.degrees),
                 shifted |-> getWindDirection(call.degrees + 36000 * call.turns) ]
    /\ UNCHANGED page

\* getWeatherInfo returns.
GetWeatherInfo ==
    /\ call.fn = "getWeatherInfo"
    /\ call.pc = "called"
    /\ call' = [ fn |-> call.fn, pc |-> "returned", code |-> call.code,
                 info |-> getWeatherInfo(call.code) ]
    /\ UNCHANGED page

FunctionNext == GetWindDirection \/ GetWeatherInfo

FunctionSpec == FunctionInit /\ [][FunctionNext]_vars

\* ================================================================ claims
\* Steps of a lookup, read off the state: l shows the placeholders (is
\* issued); l ends; l ends otherwise than with its summary rendered.
Issues(l) == lookups[l].pc = "unused" /\ lookups'[l].pc # "unused"
Ends(l) == l \in InFlight /\ lookups'[l].pc = "done"
Fails(l) == Ends(l) /\ ended'.outcome # "Displayed"

CardsEmptied == [kind |-> "cards", cards |-> <<>>]

\* C1, as claimed: when a lookup that showed the placeholders fails, the forecast
\* cards that were displayed when it was issued are still displayed afterwards.
C1_CardsSurviveFailure ==
    [][ \A l \in LookupIds :
          (Fails(l) /\ lookups[l].hadCards) => HasCards(forecast') ]_vars

\* C1, amended: a lookup that is issued replaces both regions by the loading
\* placeholders, whatever cards #forecast held; when it fails, the error message
\* replaces the summary and the failing step leaves #forecast as it is (the
\* placeholder, or what an overlapping lookup rendered since), except that a
\* response with a current block and no daily block empties it.
C1_FailureLeavesPlaceholder ==
    [][ \A l \in LookupIds :
          /\ Issues(l) => /\ currentWeather'.kind = "loading"
                          /\ forecast'.kind = "loading"
          /\ Fails(l) => /\ currentWeather'.kind = "error"
                         /\ \/ forecast' = forecast
                            \/ /\ ended'.outcome = "NoDailyData"
                               /\ forecast' = CardsEmptied ]_vars

\* C1, witness: a lookup issued while cards were displayed has failed with "City
\* not found", no lookup is in flight, and #forecast shows the placeholder.
C1_Witness ==
    /\ InFlight = {}
    /\ ended.outcome = "NotFound"
    /\ ended.hadCards
    /\ ~ended.overtaken
    /\ currentWeather = showError(MsgNotFound)
    /\ forecast.kind = "loading"

\* C2, as claimed: when the forecast fetch of a name lookup fails (transport
\* failure or no current block), the session's coordinate is what it was when the
\* lookup was issued, the map view and the overlay are what they were before the
\* failure, and no request is sent.
C2_ResolvedLocationDiscarded ==
    [][ \A l \in LookupIds :
          ( /\ lookups[l].kind = "search"
            /\ lookups[l].pc = "weather"
            /\ Ends(l)
            /\ ended'.outcome \in {"ForecastFailure", "NoCurrentData"} )
          => /\ currentWeather' = showError(MsgFetch)
             /\ currentLat' = lookups[l].fromLat
             /\ currentLon' = lookups[l].fromLon
             /\ map'.view = map.view
             /\ heatLayer' = heatLayer
             /\ GeocodingRequests' \subseteq GeocodingRequests
             /\ ForecastRequests' \subseteq ForecastRequests ]_vars

\* Whether every sample of the overlay lies within 0.1 degree of (lat, lon).
Within(x, y, d) == x - y <= d /\ y - x <= d

SamplesAround(samples, lat, lon) ==
    \A n \in 1..Len(samples) :
        Within(samples[n][1], lat, 1000) /\ Within(samples[n][2], lon, 1000)

\* C3, as claimed: in every reachable state the overlay's samples lie within 0.1
\* degree of (currentLat, currentLon).
C3_OverlayCentredOnCurrent ==
    SamplesAround(OverlaySamples, currentLat, currentLon)

\* Whether the step regenerated the overlay: NumPoints fresh draws around the
\* globals, for the active button, in a new layer that is the one heat layer.
Regenerates ==
    /\ rng' = nextSeed(rng)
    /\ heatLayer' # <<>>
    /\ heatLayer'[1].points = drawPoints(activeButton', currentLat', currentLon', rng)

\* C4, as claimed: every step that ends a lookup with its summary and forecast
\* rendered also recentres the map, on the coordinate the forecast was fetched
\* for or on the session's, and regenerates the overlay.
C4_DisplayedRecentresAndRegenerates ==
    [][ \A l \in LookupIds :
          (Ends(l) /\ ended'.outcome = "Displayed")
          => /\ currentWeather'.kind = "weather"
             /\ HasCards(forecast')
             /\ map'.view \in { <<lookups[l].lat, lookups[l].lon, DefaultZoom>>,
                                <<currentLat', currentLon', DefaultZoom>> }
             /\ Regenerates ]_vars

\* C5: there is no generation token. Whenever the full forecast response of a
\* lookup arrives, its summary and its cards are rendered, also when a lookup
\* issued later has ended already.
C5_StaleResponseRenders ==
    [][ \A l \in LookupIds :
          (Ends(l) /\ ended'.outcome = "Displayed")
          => /\ currentWeather'.kind = "weather"
             /\ currentWeather'.cityName = lookups[l].cityName
             /\ currentWeather'.country = lookups[l].country
             /\ forecast' = displayForecast(FullWeather(lookups[l].lat, lookups[l].lon)) ]_vars

\* C5, witness: a lookup that a later-issued lookup had overtaken has rendered
\* last: no lookup is in flight and the summary and the cards are its own.
C5_Witness ==
    /\ InFlight = {}
    /\ ended.outcome = "Displayed"
    /\ ended.overtaken
    /\ currentWeather.kind = "weather"
    /\ currentWeather.cityName = ended.cityName
    /\ HasCards(forecast)

\* C6: under FairSpec every lookup in flight eventually ends, and whenever none
\* is in flight the summary does not show the loading placeholder: once the
\* page has started it shows a weather summary or an error message.
C6_LoadingEnds ==
    /\ \A l \in LookupIds : (l \in InFlight) ~> (lookups[l].pc = "done")
    /\ [](InFlight = {} => /\ currentWeather.kind # "loading"
                           /\ started => currentWeather.kind \in {"weather", "error"})

\* C6, witness: two overlapping lookups have both ended and the summary shows
\* an error message.
C6_Witness ==
    /\ InFlight = {}
    /\ \A l \in LookupIds : lookups[l].pc = "done"
    /\ ended.overtaken
    /\ currentWeather.kind = "error"

\* The transport failure of the reverse-geocoding call of lookup l.
ReverseGeocodingFails(l) ==
    /\ lookups[l].kind = "geolocation"
    /\ lookups[l].pc = "geocoding"
    /\ lookups'[l].viaCatch

\* A submit of an empty or whitespace-only name; getCurrentLocation without
\* navigator.geolocation.
IsBlank(q) == \A i \in 1..Len(q) : IsSpace(q[i])
BlankSubmit == \E q \in Queries : IsBlank(q) /\ (SearchWeather(q) \/ InitApp(q))
UnsupportedGeolocation == GetCurrentLocation /\ ~geolocation

\* An error message as the user sees it in the summary region.
ErrorShown(message) == [kind |-> "error", message |-> message]

\* C7, as claimed: every failure, the transport failure of the reverse-geocoding
\* call included, puts an error message in the summary region.
C7_EveryFailureShowsError ==
    [][ /\ BlankSubmit => currentWeather'.kind = "error"
        /\ UnsupportedGeolocation => currentWeather'.kind = "error"
        /\ \A l \in LookupIds :
             (Fails(l) \/ ReverseGeocodingFails(l)) => currentWeather'.kind = "error" ]_vars

\* C7, amended: every failure puts its error message in the summary region,
\* except the transport failure of the reverse-geocoding call, after which the
\* lookup goes on to the forecast fetch as "Your Location" with the summary
\* untouched; and after any step a further submit is accepted while fewer than
\* MaxLookups lookups were issued.
C7_FailuresShowErrorOrFallBack ==
    /\ [][ /\ BlankSubmit => currentWeather' = ErrorShown(MsgEmptyQuery)
           /\ UnsupportedGeolocation => currentWeather' = ErrorShown(MsgNoGeolocation)
           /\ \A l \in LookupIds :
                /\ Fails(l) =>
                     currentWeather' \in
                         CASE ended'.outcome = "NotFound" -> {ErrorShown(MsgNotFound)}
                           [] ended'.outcome = "GeolocationUnavailable" ->
                                  {ErrorShown(MsgPosition(m)) : m \in PositionErrors}
                           [] OTHER -> {ErrorShown(MsgFetch)}
                /\ ReverseGeocodingFails(l) =>
                     /\ lookups'[l].pc = "weather"
                     /\ lookups'[l].cityName = "Your Location"
                     /\ lookups'[l].country = ""
                     /\ currentWeather' = currentWeather ]_vars
    /\ [](started =>
            /\ \A q \in Queries : IsBlank(q) \/ Issued = MaxLookups \/ ENABLED SearchWeather(q)
            /\ ENABLED GetCurrentLocation \/ Issued = MaxLookups)

\* C7, witness: a geolocation lookup whose reverse geocoding failed went on to the
\* forecast fetch, whose response lacked the current block: the error is shown.
C7_Witness ==
    /\ InFlight = {}
    /\ ended.kind = "geolocation"
    /\ ended.viaCatch
    /\ ended.outcome = "NoCurrentData"
    /\ currentWeather = ErrorShown(MsgFetch)

\* C8: a mode change sends no request and starts no lookup, leaves the globals,
\* the summary, the forecast and the map view as they are, makes the chosen
\* button the active one and regenerates the overlay for it around the globals.
C8_ModeChangeOnlyRegenerates ==
    [][ \A button \in ButtonTexts :
          showMap(button)
          => /\ lookups' = lookups
             /\ GeocodingRequests' = GeocodingRequests
             /\ ForecastRequests' = ForecastRequests
             /\ <<currentLat', currentLon'>> = <<currentLat, currentLon>>
             /\ currentWeather' = currentWeather
             /\ forecast' = forecast
             /\ map'.view = map.view
             /\ activeButton' = button
             /\ Regenerates
             /\ SamplesAround(OverlaySamples', currentLat, currentLon) ]_vars

\* C8, witness: the wind overlay is on the map while a summary and cards are
\* displayed and no lookup is in flight.
C8_Witness ==
    /\ InFlight = {}
    /\ activeButton = WindButton
    /\ heatLayer # <<>>
    /\ heatLayer[1].gradient = "wind"
    /\ currentWeather.kind = "weather"
    /\ HasCards(forecast)

\* C9: a submit of an empty or whitespace-only name starts no lookup and sends
\* no request, shows "Please enter a city name" in the summary region and not
\* the loading placeholders, and leaves the globals and the forecast region as
\* they are, and after startup the map and the overlay too.
C9_BlankQueryOnlyShowsError ==
    [][ \A q \in Queries :
          (IsBlank(q) /\ (SearchWeather(q) \/ InitApp(q)))
          => /\ lookups' = lookups
             /\ GeocodingRequests' = {} \/ GeocodingRequests' = GeocodingRequests
             /\ ForecastRequests' = ForecastRequests
             /\ currentWeather' = showError(MsgEmptyQuery)
             /\ forecast' = forecast
             /\ <<currentLat', currentLon'>> = <<currentLat, currentLon>>
             /\ started => (map' = map /\ heatLayer' = heatLayer) ]_vars

\* C9, witness: the empty-query message is shown while the cards of an earlier
\* lookup are still displayed and nothing is in flight.
C9_Witness ==
    /\ InFlight = {}
    /\ currentWeather = showError(MsgEmptyQuery)
    /\ HasCards(forecast)

\* The reverse-geocoding bodies without a named result.
Unnamed(body) ==
    \/ "results" \notin DOMAIN body
    \/ Len(body.results) = 0
    \/ "name" \notin DOMAIN body.results[1]

\* C10: a reverse-geocoding response without a named result makes the lookup go
\* on to the forecast fetch as "Your Location" with an empty country, no error
\* shown; and the full forecast response of such a lookup renders the summary
\* under that label.
C10_UnnamedPositionIsYourLocation ==
    [][ \A l \in LookupIds :
          /\ \A body \in GeoReverse(lookups[l].lat, lookups[l].lon) :
               (Unnamed(body) /\ ReverseGeocodingReturns(l, Delivered(body)))
               => /\ lookups'[l].pc = "weather"
                  /\ lookups'[l].cityName = "Your Location"
                  /\ lookups'[l].country = ""
                  /\ ~lookups'[l].viaCatch
                  /\ currentWeather' = currentWeather
          /\ ( /\ lookups[l].kind = "geolocation"
               /\ lookups[l].cityName = "Your Location"
               /\ Ends(l)
               /\ ended'.outcome = "Displayed" )
             => /\ currentWeather'.kind = "weather"
                /\ currentWeather'.cityName = "Your Location"
                /\ currentWeather'.country = "" ]_vars

\* C10, witness: a geolocation lookup whose reverse geocoding was delivered
\* without a name has ended with its summary rendered as "Your Location".
C10_Witness ==
    /\ InFlight = {}
    /\ ended.kind = "geolocation"
    /\ ~ended.viaCatch
    /\ ended.cityName = "Your Location"
    /\ ended.outcome = "Displayed"
    /\ currentWeather.kind = "weather"
    /\ currentWeather.cityName = "Your Location"
    /\ currentWeather.country = ""

\* The geocoding response of a name search that resolves no location: a
\* failed call, or a body without results.
Unresolved(response) ==
    \/ ~response.ok
    \/ "results" \notin DOMAIN response.body
    \/ Len(response.body.results) = 0

\* C11: a lookup's forecast request goes out in the step in which its geocoding
\* call returns, never before and never while that call is outstanding; and
\* a name search whose geocoding call failed or returned no results ends in
\* that step with no forecast request of its own.
C11_ResolutionPrecedesFetch ==
    [][ \A l \in LookupIds :
          /\ (l \notin ForecastRequests /\ l \in ForecastRequests')
             => /\ l \in GeocodingRequests
                /\ l \notin GeocodingRequests'
                /\ \/ \E response \in SearchResponses(l) :
                         ~Unresolved(response) /\ SearchGeocodingReturns(l, response)
                   \/ \E response \in ReverseResponses(l) :
                         ReverseGeocodingReturns(l, response)
          /\ \A response \in SearchResponses(l) :
                (Unresolved(response) /\ SearchGeocodingReturns(l, response))
                => /\ lookups'[l].pc = "done"
                   /\ ForecastRequests' = ForecastRequests
                   /\ ended'.outcome \in {"GeocodingFailure", "NotFound"} ]_vars

\* C11, witness: a name search and a geolocation lookup both wait for their
\* forecast, each with the place name its geocoding call returned.
C11_Witness ==
    \E l, k \in ForecastRequests :
        /\ lookups[l].kind = "search"
        /\ lookups[l].cityName = "Paris"
        /\ lookups[k].kind = "geolocation"
        /\ lookups[k].cityName = "New York"

\* C12, as claimed: the step that starts the page leaves the session centre at
\* the default coordinate and issues a lookup, whatever the city input holds:
\* afterwards one lookup is in flight and the summary region shows the loading
\* placeholder, not nothing and not an error.
C12_StartupIssuesLookup ==
    [][ (~started /\ started')
        => /\ <<currentLat', currentLon'>> = <<DefaultLat, DefaultLon>>
           /\ map'.view = <<DefaultLat, DefaultLon, DefaultZoom>>
           /\ Issued' = 1
           /\ InFlight' = {1}
           /\ currentWeather'.kind = "loading" ]_vars

WindReturned == call.fn = "getWindDirection" /\ call.pc = "returned"
CompassLabels == { directions[n] : n \in 1..NumDirections }

\* C13, as claimed: getWindDirection gives a bearing and the bearing shifted by
\* any number of whole turns, forwards or backwards, the same label, one of
\* the 16 compass labels.
C13_WindLabelPeriodic ==
    WindReturned => /\ call.label = call.shifted
                    /\ call.shifted \in CompassLabels

\* The distance around the circle between two bearings of one turn.
Around(a, b) ==
    LET d == IF a >= b THEN a - b ELSE b - a IN
    IF d <= 36000 - d THEN d ELSE 36000 - d

\* The sectors whose centre is nearest to the bearing.
NearestSectors(degrees) ==
    { i \in 0..(NumDirections - 1) :
        \A j \in 0..(NumDirections - 1) :
            Around(degrees, 2250 * i) <= Around(degrees, 2250 * j) }

\* C14: for a bearing of [0, 360) getWindDirection returns the label of a sector
\* whose centre is nearest to the bearing, the upper one when two are equally
\* near; from 348.75 on that is N; and 0, 90, 180, 270 give N, E, S, W.
C14_WindLabelNearestSector ==
    WindReturned =>
        /\ \E i \in NearestSectors(call.degrees) :
              /\ call.label = directions[i + 1]
              /\ \A j \in NearestSectors(call.degrees) :
                    j = i \/ (j + 1) % NumDirections = i
        /\ call.degrees >= 34875 => call.label = "N"
        /\ call.degrees = 0 => call.label = "N"
        /\ call.degrees = 9000 => call.label = "E"
        /\ call.degrees = 18000 => call.label = "S"
        /\ call.degrees = 27000 => call.label = "W"

\* C14, witness: the bearing 348.75, half way between NNW and N, got the label N.
C14_Witness ==
    /\ WindReturned
    /\ call.degrees = 34875
    /\ call.label = "N"

CodeReturned == call.fn = "getWeatherInfo" /\ call.pc = "returned"

\* The catalogue of codes with their descriptions.
Catalogue ==
    << <<0, "Clear sky">>, <<1, "Mainly clear">>, <<2, "Partly cloudy">>,
       <<3, "Overcast">>, <<45, "Fog">>, <<48, "Depositing rime fog">>,
       <<51, "Light drizzle">>, <<53, "Moderate drizzle">>, <<55, "Dense drizzle">>,
       <<61, "Slight rain">>, <<63, "Moderate rain">>, <<65, "Heavy rain">>,
       <<80, "Slight rain showers">>, <<81, "Moderate rain showers">>,
       <<82, "Violent rain showers">>, <<95, "Thunderstorm">>,
       <<96, "Thunderstorm with hail">> >>

\* C18: getWeatherInfo returns, for every code, a record with a description and
\* an icon: the catalogue's description for each of its 17 codes, code 0
\* included, and "Unknown" for every other integer.
C18_WeatherInfoTotal ==
    CodeReturned =>
        /\ DOMAIN call.info = {"description", "icon"}
        /\ \A n \in 1..Len(Catalogue) :
              call.code = Catalogue[n][1] => call.info.description = Catalogue[n][2]
        /\ (\A n \in 1..Len(Catalogue) : call.code # Catalogue[n][1])
              => call.info.description = "Unknown"

\* C18, witness: code 0 got "Clear sky".
C18_Witness ==
    /\ CodeReturned
    /\ call.code = 0
    /\ call.info.description = "Clear sky"

\* C15: the step in which a lookup ends with its data displayed leaves exactly
\* 5 cards in the forecast region, the n-th built from daily index n of that
\* lookup's response, none from index 0; and whenever the region holds cards
\* it holds 5, however many lookups have rendered before.
C15_FiveCardsFromDaysOneToFive ==
    /\ [][ \A l \in LookupIds :
             (Ends(l) /\ ended'.outcome = "Displayed")
             => LET daily == FullWeather(lookups[l].lat, lookups[l].lon).daily IN
                /\ forecast'.kind = "cards"
                /\ Len(forecast'.cards) = 5
                /\ \A n \in 1..5 :
                     /\ forecast'.cards[n].date = daily.time[n + 1]
                     /\ forecast'.cards[n].date # daily.time[1]
                     /\ forecast'.cards[n].maxTemp =
                            MathRound(daily.temperature_2m_max[n + 1], 10)
                     /\ forecast'.cards[n].precipitation = daily.precipitation_sum[n + 1] ]_vars
    /\ [](forecast.kind = "cards" => Len(forecast.cards) \in {0, 5})

\* C15, witness: a lookup issued while the cards of an earlier lookup were
\* displayed has rendered its own: 5 cards are displayed.
C15_Witness ==
    /\ InFlight = {}
    /\ ended.outcome = "Displayed"
    /\ ended.hadCards
    /\ forecast.kind = "cards"
    /\ Len(forecast.cards) = 5

\* The intensities of a mode, times RandRes.
InModeRange(button, intensity) ==
    IF button = TemperatureButton
    THEN 15 * RandRes <= intensity /\ intensity <= 30 * RandRes
    ELSE IF button = WindButton
    THEN 0 <= intensity /\ intensity <= 10 * RandRes
    ELSE 0 <= intensity /\ intensity <= 5 * RandRes

\* C16: every step that regenerates the overlay leaves NumPoints samples, each
\* within 0.1 degrees of the centre used and with an intensity in the range of
\* the mode active then; and at any time the map carries, besides the tiles,
\* the one heat layer of the last regeneration and nothing of an earlier one.
C16_OverlayReplacedByFiftySamples ==
    /\ [][ heatLayer' # heatLayer
           => LET samples == OverlaySamples' IN
              /\ Len(samples) = 50
              /\ SamplesAround(samples, currentLat', currentLon')
              /\ \A n \in 1..Len(samples) :
                    InModeRange(activeButton', samples[n][3]) ]_vars
    /\ [](started => /\ heatLayer # <<>>
                     /\ map.layers = <<TileLayer, heatLayer[1]>>)

\* C16, witness: after the first overlay (temperature) a precipitation overlay
\* has been generated, and the map carries the tiles and one heat layer.
C16_Witness ==
    /\ activeButton = PrecipitationButton
    /\ heatLayer # <<>>
    /\ heatLayer[1].gradient = "precipitation"
    /\ Len(map.layers) = 2
    /\ Len(OverlaySamples) = 50

\* C17: a delivered forecast response without the current block ends the
\* lookup with the fetch error in the summary region and the forecast region
\* as it was: nothing is rendered from that response.
C17_NoCurrentDataShowsError ==
    [][ \A l \in LookupIds :
          \A body \in WeatherBodies(lookups[l].lat, lookups[l].lon) :
             ("current" \notin DOMAIN body /\ WeatherReturns(l, Delivered(body)))
             => /\ ended'.outcome = "NoCurrentData"
                /\ currentWeather' = ErrorShown(MsgFetch)
                /\ forecast' = forecast ]_vars

\* C17, witness: a name search ended on a response without the current block:
\* the error is shown and the forecast region still holds its placeholder.
C17_Witness ==
    /\ InFlight = {}
    /\ ended.kind = "search"
    /\ ended.outcome = "NoCurrentData"
    /\ currentWeather = ErrorShown(MsgFetch)
    /\ forecast = showLoading.forecast

\* The names under which the geocoding provider knows a coordinate, the
\* fallback label of an unnamed device position included.
PlaceNames(lat, lon) ==
    LET found == At(GeoSearch(Paris).results, 0) IN
    (IF found.latitude = lat /\ found.longitude = lon THEN {found.name} ELSE {})
    \cup (IF \E position \in DevicePositions :
                position.latitude = lat /\ position.longitude = lon
          THEN { firstField(body, "name", "Your Location") : body \in GeoReverse(lat, lon) }
          ELSE {})

\* C19, as claimed: whenever no lookup is in flight and the summary shows a
\* place, that place, the weather shown with it, the map centre, the centre
\* of the overlay and currentLat/currentLon are those of one coordinate.
C19_QuiescentStateAgrees ==
    (started /\ InFlight = {} /\ currentWeather.kind = "weather")
    => /\ currentWeather.cityName \in PlaceNames(currentLat, currentLon)
       /\ currentWeather = displayCurrentWeather(FullWeather(currentLat, currentLon),
                                                 currentWeather.cityName,
                                                 currentWeather.country)
       /\ map.view = <<currentLat, currentLon, DefaultZoom>>
       /\ heatLayer # <<>>
       /\ heatLayer[1].points.lat = currentLat
       /\ heatLayer[1].points.lon = currentLon

\* C20, as claimed: the forecast request of a lookup is for the coordinate the
\* same lookup resolved: for a name search the first geocoding result, for a
\* geolocation lookup the position it received and asked the reverse
\* geocoding about, whatever other lookups did in between.
C20_ForecastForOwnCoordinate ==
    [][ \A l \in LookupIds :
          (l \in GeocodingRequests /\ l \in ForecastRequests')
          => IF lookups[l].kind = "search"
             THEN LET first == At(GeoSearch(lookups[l].query).results, 0) IN
                  /\ lookups'[l].lat = first.latitude
                  /\ lookups'[l].lon = first.longitude
                  /\ lookups'[l].cityName \in PlaceNames(lookups'[l].lat, lookups'[l].lon)
             ELSE /\ lookups'[l].lat = lookups[l].lat
                  /\ lookups'[l].lon = lookups[l].lon
                  /\ lookups'[l].cityName \in PlaceNames(lookups'[l].lat, lookups'[l].lon) ]_vars

====
